---- MODULE Spec2Model ----
(***************************************************************************)
(* git-fixup (src/git-fixup.py): one run of Fixup.main.                    *)
(*                                                                         *)
(* Text is modelled as sequences of one-character strings, so that         *)
(* str.split, str.startswith, str.replace and slicing are computed the way *)
(* Python computes them.  The repository (status output, per-path history, *)
(* recent history) is the environment; every call of Fixup.git may exit    *)
(* with a zero or a non-zero return code.                                  *)
(***************************************************************************)
EXTENDS Integers, Sequences, FiniteSets

VARIABLES
    opt,          \* the parsed options: all, diff, no_commit, squash, rebase
    files,        \* the positional arguments
    status,       \* repository: lines of 'git status --porcelain'
    lastlog,      \* repository: path -> lines of 'git log -n 1 --oneline -- path'
    history,      \* repository: lines of 'git log -n 1000 --oneline'
    pc,           \* position in main / fixup / rebase_all
    todo,         \* fixup: the paths still to iterate in the first loop
    changes,      \* fixup: dict commit id -> set of paths
    desc,         \* fixup: dict commit id -> title
    reported,     \* fixup: keys the second loop is done with
    committed,    \* fixup: keys the third loop is done with
    commits,      \* rebase_all: the parsed history
    fixups,       \* rebase_all: the set of target subjects
    parents,      \* rebase_all: the entries whose subject is a target
    invocations,  \* every git command run so far, with its return code
    out,          \* what the program itself wrote to stdout
    exc,          \* the exception that left main uncaught ("" when none)
    exitcode,     \* the process exit code (-1 while running)
    made          \* repository: the fixup/squash commits created so far

vars == <<opt, files, status, lastlog, history, pc, todo, changes, desc,
          reported, committed, commits, fixups, parents,
          invocations, out, exc, exitcode, made>>

-----------------------------------------------------------------------------
(* Bounds of the model.                                                    *)

MaxHist == 3      \* longest enumerated history
MaxArgs == 2      \* longest enumerated positional file list

-----------------------------------------------------------------------------
(* Python string primitives over sequences of characters.                  *)

\* s[i:] for a 0-based i (src line 86: line[3:])
SliceFrom(s, i) == SubSeq(s, i + 1, Len(s))

\* s[i:j] for 0-based i, j (src line 83: line[1:2])
Slice(s, i, j) ==
    SubSeq(s, i + 1, IF j < Len(s) THEN j ELSE Len(s))

\* s.startswith(p)
StartsWith(s, p) ==
    /\ Len(p) <= Len(s)
    /\ SubSeq(s, 1, Len(p)) = p

\* index of the first occurrence of character c in s at or after i, 0 if none
RECURSIVE FindChar(_, _, _)
FindChar(s, c, i) ==
    IF i > Len(s) THEN 0
    ELSE IF s[i] = c THEN i
    ELSE FindChar(s, c, i + 1)

\* s.split(" ", 1): at most one split, at the first space
Split1(s) ==
    LET k == FindChar(s, " ", 1)
    IN  IF k = 0 THEN <<s>>
        ELSE <<SubSeq(s, 1, k - 1), SubSeq(s, k + 1, Len(s))>>

\* s.replace(old, new): every non-overlapping occurrence, left to right
RECURSIVE Replace(_, _, _)
Replace(s, old, new) ==
    IF Len(s) < Len(old) THEN s
    ELSE IF StartsWith(s, old)
         THEN new \o Replace(SubSeq(s, Len(old) + 1, Len(s)), old, new)
         ELSE <<Head(s)>> \o Replace(Tail(s), old, new)

-----------------------------------------------------------------------------
(* The literals of rebase_all.                                             *)

FixupBang == <<"f", "i", "x", "u", "p", "!">>                 \* "fixup!"
SquashBang == <<"s", "q", "u", "a", "s", "h", "!">>            \* "squash!"
FixupSp == FixupBang \o <<" ">>                             \* "fixup! "
SquashSp == SquashBang \o <<" ">>                            \* "squash! "

\* the condition of the list comprehension, src line 125
IsFixupSubject(s) ==
    StartsWith(s, FixupBang) \/ StartsWith(s, SquashBang)

\* removal of the leading prefix alone
StripOnlyLeading(s) ==
    IF StartsWith(s, FixupSp) THEN SubSeq(s, Len(FixupSp) + 1, Len(s))
    ELSE IF StartsWith(s, SquashSp) THEN SubSeq(s, Len(SquashSp) + 1, Len(s))
    ELSE s

\* the expression of the list comprehension, src line 123
StripPrefixes(s) ==
    Replace(Replace(s, FixupSp, <<>>), SquashSp, <<>>)

-----------------------------------------------------------------------------
(* The repository the program runs in.                                     *)

PathA == <<"a">>
PathB == <<"b">>
PathC == <<"c">>
Paths == <<PathA, PathB, PathC>>
PathSet == {Paths[i] : i \in 1..Len(Paths)}

\* 'git log -n 1 --oneline' lines: "<short id> <subject>"
Line1 == <<"c", "1", " ", "U", " ", "d">>      \* subject "U d"
Line2 == <<"c", "2", " ", "X">>                \* subject "X"
Line3 == <<"c", "3", " ">>                     \* empty subject
LogLines == {Line1, Line2, Line3}

\* a 'git status --porcelain' line: two status columns, a space, the path
StatusLine(code, path) == code \o <<" ">> \o path
StatusCodes == {<<" ", "M">>, <<"A", "M">>, <<"M", " ">>, <<"?", "?">>}

\* subjects of the enumerated histories
SubjA == <<"A">>
SubjB == <<"B">>
SubjC == <<"C">>
FixA == FixupSp \o SubjA                  \* "fixup! A"
FixB == FixupSp \o SubjB                  \* "fixup! B"
FixZ == FixupSp \o <<"Z">>                \* "fixup! Z", target not in history
SquashA == SquashSp \o SubjA                 \* "squash! A"
FixFixA == FixupSp \o FixA                   \* "fixup! fixup! A"
SquashFixB == SquashSp \o FixB                 \* "squash! fixup! B"
FixNoSp == FixupBang \o <<"x">>              \* "fixup!x"
Subjects == {SubjA, SubjB, FixA, FixB, FixZ, SquashA, FixFixA, SquashFixB,
             FixNoSp}

Digits == <<"1", "2", "3", "4", "5", "6", "7", "8", "9">>
HashOf(i) == <<"h", Digits[i]>>

\* the output of 'git log --oneline' for commits with these subjects,
\* newest first
OnelineLog(subjs) ==
    [i \in 1..Len(subjs) |-> HashOf(i) \o <<" ">> \o subjs[i]]

ExampleSubjects == <<FixB, SubjC, SubjB, FixA, SubjA>>

SubjectLists == UNION {[1..n -> Subjects] : n \in 0..MaxHist}

ArgLists == UNION {[1..n -> PathSet] : n \in 1..MaxArgs}

SeqRange(s) == {s[i] : i \in 1..Len(s)}

-----------------------------------------------------------------------------
(* Records of what the program does.                                       *)

NoArgs == [cmd |-> "", flag |-> "", rev |-> <<>>, paths |-> {}]
NoError == [kind |-> "", what |-> "", args |-> NoArgs, rc |-> 0, targets |-> {}]

EmptyDict == [k \in {} |-> {}]

\* a git command line, by its parts
GitArgs(cmd, flag, rev, paths) ==
    [cmd |-> cmd, flag |-> flag, rev |-> rev, paths |-> paths]

Invocation(args, rc) == [args |-> args, rc |-> rc]

\* src line 75: 'if sub.returncode: raise Error(...)'
RaisesNever(rc) == FALSE

Raises(rc) == rc # 0

\* src lines 76-78: the Error of a failed command
CommandError(args, rc) ==
    [kind |-> "Error", what |-> "command failed", args |-> args, rc |-> rc,
     targets |-> {}]

\* src lines 134-135
NoTargetError(targets) ==
    [kind |-> "Error", what |-> "could not find target", args |-> NoArgs,
     rc |-> 0, targets |-> targets]

TextLine(t) == [tag |-> "text", text |-> t, error |-> NoError]
\* src line 150: "ERROR: {0.__class__.__name__}: {0}"
ErrorLine(e) == [tag |-> "ERROR", text |-> <<>>, error |-> e]

Opts == [all : BOOLEAN, diff : BOOLEAN, no_commit : BOOLEAN,
         squash : BOOLEAN, rebase : BOOLEAN]

-----------------------------------------------------------------------------
(* State after option parsing, before main's try block.                    *)

Fresh ==
    /\ pc = "main"
    /\ todo = <<>>
    /\ changes = EmptyDict
    /\ desc = EmptyDict
    /\ reported = {}
    /\ committed = {}
    /\ commits = <<>>
    /\ fixups = {}
    /\ parents = <<>>
    /\ invocations = <<>>
    /\ out = <<>>
    /\ exc = ""
    /\ exitcode = -1
    /\ made = <<>>

NoHistoryOf == [p \in PathSet |-> <<>>]

\* -r with every enumerated history.  The other options and the paths are
\* parsed and never read by rebase_all: they vary over the histories of at
\* most one entry only.
InitRebase ==
    /\ opt \in {o \in Opts : o.rebase}
    /\ \E subjs \in SubjectLists \cup {ExampleSubjects} :
          /\ history = OnelineLog(subjs)
          /\ \/ /\ ~opt.all /\ ~opt.diff /\ ~opt.no_commit /\ ~opt.squash
                /\ files = <<>>
             \/ /\ Len(subjs) <= 1
                /\ files \in {<<>>} \cup ArgLists
    /\ status = <<>>
    /\ lastlog = NoHistoryOf

\* explicit paths; a path may have history or none
InitArgs ==
    /\ opt \in {o \in Opts : ~o.rebase}
    /\ files \in ArgLists
    /\ lastlog \in {ll \in [PathSet -> {<<>>} \cup {<<l>> : l \in LogLines}] :
                      \A p \in PathSet \ SeqRange(files) : ll[p] = <<>>}
    /\ status = <<>>
    /\ history = <<>>

\* no paths given: the working tree decides.  A path modified against the
\* index (" M") is tracked and has history; an added and modified path
\* ("AM") or an untracked one ("??") has none.
InitStatus ==
    /\ opt \in {o \in Opts : ~o.rebase}
    /\ files = <<>>
    /\ \E code \in [PathSet -> StatusCodes] :
          /\ status = [i \in 1..Len(Paths) |-> StatusLine(code[Paths[i]], Paths[i])]
          /\ lastlog \in {ll \in [PathSet -> {<<>>} \cup {<<l>> : l \in LogLines}] :
                \A p \in PathSet :
                   /\ code[p] = <<" ", "M">> => ll[p] # <<>>
                   /\ code[p] = <<"M", " ">> => ll[p] = <<Line1>>
                   /\ code[p] \in {<<"A", "M">>, <<"?", "?">>} => ll[p] = <<>>}
    /\ history = <<>>

Init ==
    /\ Fresh
    /\ \/ InitRebase
       \/ InitArgs
       \/ InitStatus

-----------------------------------------------------------------------------
(* Helpers of the three workflows.                                         *)

ReturnCodes == {0, 1}

\* src lines 149-151: main catches Error, prints it and returns 1
Caught(o, e) ==
    /\ out' = Append(o, ErrorLine(e))
    /\ exitcode' = 1
    /\ exc' = exc
    /\ pc' = "done"

\* main returns None: sys.exit(None) is exit code 0 (src line 155)
Returned(o) ==
    /\ out' = o
    /\ exitcode' = 0
    /\ exc' = exc
    /\ pc' = "done"

\* an exception that is not an Error passes the except clause of src line
\* 149: the interpreter writes a traceback to stderr and exits with 1
Uncaught(o, kind) ==
    /\ out' = o
    /\ exitcode' = 1
    /\ exc' = kind
    /\ pc' = "done"

\* src line 147: commit=(not opt.no_commit and (opt.all or files))
CommitEnabledIgnoringNoCommit(o, fs) == o.all \/ fs # <<>>

CommitEnabled(o, fs) == ~o.no_commit /\ (o.all \/ fs # <<>>)

\* src lines 81-86: the paths whose second status column is "M"
ModifiedPaths(lines) ==
    LET keep == SelectSeq(lines, LAMBDA l : Slice(l, 1, 2) = <<"M">>)
    IN  [i \in 1..Len(keep) |-> SliceFrom(keep[i], 3)]

\* src lines 95-96: changes.setdefault(parent, set()).add(file_path)
AddFileOverwriting(ch, parent, f) ==
    [k \in DOMAIN ch \cup {parent} |-> IF k = parent THEN {f} ELSE ch[k]]

AddFile(ch, parent, f) ==
    [k \in DOMAIN ch \cup {parent} |->
        IF k = parent
        THEN (IF parent \in DOMAIN ch THEN ch[parent] ELSE {}) \cup {f}
        ELSE ch[k]]

\* src line 97: desc[parent] = title
SetTitle(d, parent, title) ==
    [k \in DOMAIN d \cup {parent} |-> IF k = parent THEN title ELSE d[k]]

\* src lines 92-94: the command of the per-path history query
LogOneArgs(f) == GitArgs("log", "-n 1 --oneline --decorate=no --", <<>>, {f})

\* src line 82
StatusArgs == GitArgs("status", "--porcelain", <<>>, {})

\* src line 103
DiffArgs(f) == GitArgs("diff", "--no-pager", <<>>, {f})

\* src lines 112-113: one commit command; list(files) is in set order
CommitArgsAllPaths(squash, commit_id, fs) ==
    GitArgs("commit", IF squash THEN "--squash" ELSE "--fixup", commit_id,
            UNION {changes[k] : k \in DOMAIN changes})

CommitArgs(squash, commit_id, fs) ==
    GitArgs("commit", IF squash THEN "--squash" ELSE "--fixup", commit_id, fs)

\* src lines 119-120
LogArgs == GitArgs("log", "--no-pager -n 1000 --oneline --decorate=no", <<>>, {})

\* src lines 136-137
RebaseArgs(rev) == GitArgs("rebase", "-i --autosquash", rev, {})

\* src lines 116-121: every line split once at its first space
ParseCommits(lines) == [i \in 1..Len(lines) |-> Split1(lines[i])]

\* src lines 122-126
Fixups(cs) ==
    {StripPrefixes(cs[i][2]) : i \in {j \in 1..Len(cs) : IsFixupSubject(cs[j][2])}}

\* src line 131
ParentsByStrippedSubject(cs, fx) ==
    SelectSeq(cs, LAMBDA e : StripPrefixes(e[2]) \in fx)

Parents(cs, fx) == SelectSeq(cs, LAMBDA e : e[2] \in fx)

\* src line 136: parents[-1][0] + "^"
AnchorNewest(ps) == ps[1][1] \o <<"^">>

Anchor(ps) == ps[Len(ps)][1] \o <<"^">>

\* the orders a set can be iterated in
Orders(S) ==
    {s \in [1..Cardinality(S) -> S] : \A x \in S : \E i \in 1..Cardinality(S) : s[i] = x}

-----------------------------------------------------------------------------
(* main, src lines 139-148.                                                *)

Main ==
    /\ pc = "main"
    /\ IF opt.rebase
       THEN pc' = "rebase_log" /\ todo' = todo
       ELSE IF files # <<>>
            THEN pc' = "resolve" /\ todo' = files
            ELSE pc' = "status" /\ todo' = todo
    /\ UNCHANGED <<opt, files, status, lastlog, history, changes, desc,
                   reported, committed, commits, fixups, parents,
                   invocations, out, exc, exitcode, made>>

\* changed_files, src lines 81-86, entered by the first loop of fixup
ChangedFiles ==
    /\ pc = "status"
    /\ \E rc \in ReturnCodes :
          /\ invocations' = Append(invocations, Invocation(StatusArgs, rc))
          /\ IF Raises(rc)
             THEN Caught(out, CommandError(StatusArgs, rc)) /\ todo' = todo
             ELSE /\ todo' = ModifiedPaths(status)
                  /\ pc' = "resolve"
                  /\ UNCHANGED <<out, exc, exitcode>>
    /\ UNCHANGED <<opt, files, status, lastlog, history, changes, desc,
                   reported, committed, commits, fixups, parents, made>>

-----------------------------------------------------------------------------
(* fixup, src lines 88-113.                                                *)

\* one iteration of the first loop, src lines 91-97
ResolveFile ==
    /\ pc = "resolve"
    /\ todo # <<>>
    /\ LET f == Head(todo) IN
       \E rc \in ReturnCodes :
          /\ invocations' = Append(invocations, Invocation(LogOneArgs(f), rc))
          /\ todo' = Tail(todo)
          /\ IF Raises(rc)
             THEN /\ Caught(out, CommandError(LogOneArgs(f), rc))
                  /\ UNCHANGED <<changes, desc>>
             ELSE IF lastlog[f] = <<>>
             THEN \* [0] of an empty list
                  /\ Uncaught(out, "IndexError")
                  /\ UNCHANGED <<changes, desc>>
             ELSE LET parts == Split1(lastlog[f][1]) IN
                  IF Len(parts) # 2
                  THEN \* the unpacking into parent, title
                       /\ Uncaught(out, "ValueError")
                       /\ UNCHANGED <<changes, desc>>
                  ELSE /\ changes' = AddFile(changes, parts[1], f)
                       /\ desc' = SetTitle(desc, parts[1], parts[2])
                       /\ UNCHANGED <<pc, out, exc, exitcode>>
    /\ UNCHANGED <<opt, files, status, lastlog, history, reported, committed,
                   commits, fixups, parents, made>>

ResolveDone ==
    /\ pc = "resolve"
    /\ todo = <<>>
    /\ pc' = "report"
    /\ UNCHANGED <<opt, files, status, lastlog, history, todo, changes, desc,
                   reported, committed, commits, fixups, parents,
                   invocations, out, exc, exitcode, made>>

\* one iteration of the second loop, src lines 99-108
ReportGroup ==
    /\ pc = "report"
    /\ \E commit_id \in DOMAIN desc \ reported :
       \E ord \in Orders(changes[commit_id]) :
          LET header == TextLine(commit_id \o <<" ">> \o desc[commit_id]) IN
          IF opt.diff
          THEN \E ok \in 0..Len(ord) :
                  LET good == [i \in 1..ok |-> Invocation(DiffArgs(ord[i]), 0)] IN
                  IF ok < Len(ord)
                  THEN /\ invocations' = invocations \o good \o
                              <<Invocation(DiffArgs(ord[ok + 1]), 1)>>
                       /\ Caught(Append(out, header),
                                 CommandError(DiffArgs(ord[ok + 1]), 1))
                       /\ reported' = reported
                  ELSE /\ invocations' = invocations \o good
                       /\ out' = out \o <<header, TextLine(<<>>)>>
                       /\ reported' = reported \cup {commit_id}
                       /\ UNCHANGED <<pc, exc, exitcode>>
          ELSE /\ out' = out \o <<header>> \o
                         [i \in 1..Len(ord) |-> TextLine(<<" ", " ", " ">> \o ord[i])]
                         \o <<TextLine(<<>>)>>
               /\ reported' = reported \cup {commit_id}
               /\ UNCHANGED <<pc, exc, exitcode, invocations>>
    /\ UNCHANGED <<opt, files, status, lastlog, history, todo, changes, desc,
                   committed, commits, fixups, parents, made>>

\* src line 110: 'if commit:'
ReportDone ==
    /\ pc = "report"
    /\ reported = DOMAIN desc
    /\ IF CommitEnabled(opt, files)
       THEN pc' = "commit" /\ UNCHANGED <<out, exc, exitcode>>
       ELSE Returned(out)
    /\ UNCHANGED <<opt, files, status, lastlog, history, todo, changes, desc,
                   reported, committed, commits, fixups, parents,
                   invocations, made>>

\* one iteration of the third loop, src lines 111-113
CommitGroup ==
    /\ pc = "commit"
    /\ \E commit_id \in DOMAIN changes \ committed :
       \E rc \in ReturnCodes :
          LET args == CommitArgs(opt.squash, commit_id, changes[commit_id]) IN
          /\ invocations' = Append(invocations, Invocation(args, rc))
          /\ IF Raises(rc)
             THEN /\ Caught(out, CommandError(args, rc))
                  /\ UNCHANGED <<committed, made>>
             ELSE /\ committed' = committed \cup {commit_id}
                  /\ made' = Append(made, args)
                  /\ UNCHANGED <<pc, out, exc, exitcode>>
    /\ UNCHANGED <<opt, files, status, lastlog, history, todo, changes, desc,
                   reported, commits, fixups, parents>>

CommitDone ==
    /\ pc = "commit"
    /\ committed = DOMAIN changes
    /\ Returned(out)
    /\ UNCHANGED <<opt, files, status, lastlog, history, todo, changes, desc,
                   reported, committed, commits, fixups, parents,
                   invocations, made>>

-----------------------------------------------------------------------------
(* rebase_all, src lines 115-137.                                          *)

\* src lines 116-135: read the history, find the targets and their commits
RebaseLog ==
    /\ pc = "rebase_log"
    /\ \E rc \in ReturnCodes :
          /\ invocations' = Append(invocations, Invocation(LogArgs, rc))
          /\ IF Raises(rc)
             THEN /\ Caught(out, CommandError(LogArgs, rc))
                  /\ UNCHANGED <<commits, fixups, parents>>
             ELSE LET cs == ParseCommits(history) IN
                  IF \E i \in 1..Len(cs) : Len(cs[i]) < 2
                  THEN \* e[1] of a line without a space
                       /\ Uncaught(out, "IndexError")
                       /\ UNCHANGED <<commits, fixups, parents>>
                  ELSE /\ commits' = cs
                       /\ fixups' = Fixups(cs)
                       /\ IF Fixups(cs) = {}
                          THEN Returned(out) /\ parents' = parents
                          ELSE /\ parents' = Parents(cs, Fixups(cs))
                               /\ IF Parents(cs, Fixups(cs)) = <<>>
                                  THEN Caught(out, NoTargetError(Fixups(cs)))
                                  ELSE /\ pc' = "rebase_run"
                                       /\ UNCHANGED <<out, exc, exitcode>>
    /\ UNCHANGED <<opt, files, status, lastlog, history, todo, changes, desc,
                   reported, committed, made>>

\* src lines 136-137
RebaseRun ==
    /\ pc = "rebase_run"
    /\ \E rc \in ReturnCodes :
          LET args == RebaseArgs(Anchor(parents)) IN
          /\ invocations' = Append(invocations, Invocation(args, rc))
          /\ IF Raises(rc)
             THEN Caught(out, CommandError(args, rc))
             ELSE Returned(out)
    /\ UNCHANGED <<opt, files, status, lastlog, history, todo, changes, desc,
                   reported, committed, commits, fixups, parents, made>>

-----------------------------------------------------------------------------

Next ==
    \/ Main
    \/ ChangedFiles
    \/ ResolveFile
    \/ ResolveDone
    \/ ReportGroup
    \/ ReportDone
    \/ CommitGroup
    \/ CommitDone
    \/ RebaseLog
    \/ RebaseRun

Spec == Init /\ [][Next]_vars

-----------------------------------------------------------------------------
(* Vocabulary of the properties, stated over the repository and over what  *)
(* the run did, not over the program's intermediate values.                *)

Done == pc = "done"

\* entry i of the scanned history, read off the log line: a two-character
\* identifier, a space, the subject
EntryId(i) == SubSeq(history[i], 1, 2)
EntrySubject(i) == SubSeq(history[i], 4, Len(history[i]))
Entries == 1..Len(history)

BeginsWith(s, p) ==
    /\ Len(s) >= Len(p)
    /\ \A i \in 1..Len(p) : s[i] = p[i]

OccursAt(s, p, i) ==
    /\ i + Len(p) - 1 <= Len(s)
    /\ \A j \in 1..Len(p) : s[i + j - 1] = p[j]

\* s with every occurrence of p (left to right, not overlapping) removed
RECURSIVE WithoutFrom(_, _, _)
WithoutFrom(s, p, i) ==
    IF i > Len(s) THEN <<>>
    ELSE IF OccursAt(s, p, i) THEN WithoutFrom(s, p, i + Len(p))
    ELSE <<s[i]>> \o WithoutFrom(s, p, i + 1)

WithoutAll(s) == WithoutFrom(WithoutFrom(s, FixupSp, 1), SquashSp, 1)

\* s with its leading "fixup! " or "squash! " removed, once
WithoutLeading(s) ==
    IF BeginsWith(s, FixupSp) THEN SubSeq(s, Len(FixupSp) + 1, Len(s))
    ELSE IF BeginsWith(s, SquashSp) THEN SubSeq(s, Len(SquashSp) + 1, Len(s))
    ELSE s

\* begins with "fixup! " or "squash! ", the space included
HasSpacedPrefix(s) == BeginsWith(s, FixupSp) \/ BeginsWith(s, SquashSp)

\* begins with "fixup!" or "squash!", no space needed
HasBangPrefix(s) == BeginsWith(s, FixupBang) \/ BeginsWith(s, SquashBang)

PendingEntries == {i \in Entries : HasBangPrefix(EntrySubject(i))}
PendingTargets == {WithoutAll(EntrySubject(i)) : i \in PendingEntries}
TargetEntries == {i \in Entries : EntrySubject(i) \in PendingTargets}

Oldest(S) == CHOOSE i \in S : \A j \in S : j <= i

Issued(cmd) == {i \in 1..Len(invocations) : invocations[i].args.cmd = cmd}

\* the history query of rebase_all ran and succeeded
HistoryRead ==
    /\ opt.rebase
    /\ Len(invocations) >= 1
    /\ invocations[1].args.cmd = "log"
    /\ invocations[1].rc = 0

\* the entry a rebase invocation is anchored at the parent of
AnchorEntry(r) ==
    CHOOSE i \in Entries : invocations[r].args.rev = EntryId(i) \o <<"^">>

ErrorLines == {i \in 1..Len(out) : out[i].tag = "ERROR"}

-----------------------------------------------------------------------------
(* C1: when some history entry's subject is a pending target, exactly one  *)
(* rebase is issued and it is anchored at the parent of the oldest such    *)
(* entry (the last one of the newest-first list); for the history          *)
(* fixup! B, C, B, fixup! A, A the anchor is h5^.                          *)

C1_AnchorIsOldestTarget ==
    (Done /\ HistoryRead /\ TargetEntries # {}) =>
        /\ Cardinality(Issued("rebase")) = 1
        /\ \A r \in Issued("rebase") :
              /\ invocations[r].args.rev = EntryId(Oldest(TargetEntries)) \o <<"^">>
              /\ invocations[r].args.flag = "-i --autosquash"
              /\ history = OnelineLog(ExampleSubjects) =>
                    invocations[r].args.rev = <<"h", "5", "^">>

C1_Witness ==
    /\ Done
    /\ history = OnelineLog(ExampleSubjects)
    /\ TargetEntries = {3, 5}
    /\ \E r \in Issued("rebase") : invocations[r].args.rev = <<"h", "5", "^">>

(* C2: with no subject beginning with "fixup! " or "squash! ", rebase_all  *)
(* issues no rebase and the run ends successfully with exit code 0.        *)

C2_NoSpacedPrefixNoRebase ==
    (Done /\ HistoryRead /\ \A i \in Entries : ~HasSpacedPrefix(EntrySubject(i))) =>
        /\ Issued("rebase") = {}
        /\ ErrorLines = {}
        /\ exc = ""
        /\ exitcode = 0

(* C3 as stated: every subject beginning with "fixup! " or "squash! "      *)
(* contributes the subject with that one leading prefix removed.           *)

C4_EveryPendingInRange ==
    (/\ \A i \in PendingEntries : HasSpacedPrefix(EntrySubject(i))
     /\ \A i \in PendingEntries : \A j \in Entries :
            j < i => EntrySubject(j) # WithoutAll(EntrySubject(i)))
    => \A r \in Issued("rebase") :
          \A i \in Entries :
              HasSpacedPrefix(EntrySubject(i)) => i <= AnchorEntry(r)

(* C4 as amended: every pending fixup/squash entry whose target subject is *)
(* the subject of an entry of the window that is not newer than it is the  *)
(* anchored entry or newer.                                                *)

C4_PendingWithTargetInRange ==
    \A r \in Issued("rebase") :
        \A i \in PendingEntries :
            (\E j \in Entries :
                j >= i /\ EntrySubject(j) = WithoutAll(EntrySubject(i)))
              => i <= AnchorEntry(r)

C4_Witness ==
    /\ Issued("rebase") # {}
    /\ \E i, j \in PendingEntries :
          /\ i < j
          /\ WithoutAll(EntrySubject(i)) # WithoutAll(EntrySubject(j))
          /\ \E k \in Entries :
                k > j /\ EntrySubject(k) = WithoutAll(EntrySubject(j))
          /\ \A r \in Issued("rebase") : j < AnchorEntry(r)

-----------------------------------------------------------------------------
(* The fixup workflow, seen from outside.                                  *)

\* the paths the run is about: the arguments, or else the paths whose
\* second status column is M
InputPaths ==
    IF files # <<>> THEN {files[i] : i \in 1..Len(files)}
    ELSE {Paths[i] : i \in {j \in 1..Len(status) : status[j][2] = "M"}}

\* the two-character identifier of the most recent commit touching f
OwnerId(f) == SubSeq(lastlog[f][1], 1, 2)
OwnedBy(id) == {f \in InputPaths : lastlog[f] # <<>> /\ OwnerId(f) = id}
Owners == {OwnerId(f) : f \in {g \in InputPaths : lastlog[g] # <<>>}}

\* the commit gate of the specification
Gate == ~opt.no_commit /\ (opt.all \/ files # <<>>) /\ ~opt.rebase

ReadOnly == {"status", "log", "diff"}

\* no query and no diff failed, and every path had history
ResolvedAndReported ==
    /\ ~opt.rebase
    /\ exc = ""
    /\ \A i \in 1..Len(invocations) :
          invocations[i].args.cmd \in ReadOnly => invocations[i].rc = 0

\* the commit invocations that exited with 0, in the order issued
RECURSIVE SucceededIn(_)
SucceededIn(invs) ==
    IF invs = <<>> THEN <<>>
    ELSE IF Head(invs).args.cmd = "commit" /\ Head(invs).rc = 0
         THEN <<Head(invs)>> \o SucceededIn(Tail(invs))
         ELSE SucceededIn(Tail(invs))

(* C5: a path whose history query returns nothing makes the run end with   *)
(* an ERROR line naming that path and exit code 1.                         *)

C5_EmptyHistoryIsReported ==
    \A i \in Issued("log") :
        \A f \in invocations[i].args.paths :
            (Done /\ invocations[i].rc = 0 /\ lastlog[f] = <<>>) =>
                /\ exitcode = 1
                /\ \E k \in ErrorLines : f \in out[k].error.args.paths

(* C6 as stated: once resolution has succeeded and commit is enabled, the  *)
(* run issues exactly one commit invocation per owning commit.             *)

C6_OneCommitPerOwner ==
    (Done /\ ResolvedAndReported /\ Gate) =>
        \A id \in Owners :
            Cardinality({i \in Issued("commit") : invocations[i].args.rev = id}) = 1

(* C6 as amended: every commit invocation targets an owning commit with    *)
(* --fixup (--squash when squash is set) and exactly that owner's paths,   *)
(* no owner is targeted twice, and a run that ends without error has       *)
(* issued one for every owner.                                             *)

C6_CommitShape ==
    /\ \A i \in Issued("commit") :
          /\ invocations[i].args.rev \in Owners
          /\ invocations[i].args.paths = OwnedBy(invocations[i].args.rev)
          /\ invocations[i].args.flag = (IF opt.squash THEN "--squash" ELSE "--fixup")
          /\ \A j \in Issued("commit") :
                invocations[j].args.rev = invocations[i].args.rev => j = i
    /\ (Done /\ exitcode = 0 /\ Gate) =>
          {invocations[i].args.rev : i \in Issued("commit")} = Owners

C6_Witness ==
    /\ Done
    /\ exitcode = 0
    /\ Cardinality(Issued("commit")) = 2
    /\ \E i \in Issued("commit") : Cardinality(invocations[i].args.paths) = 2

(* C7 as stated: a commit is issued only under the gate, and every other   *)
(* combination issues only status, log and diff.                           *)

C7_GateOrReadOnly ==
    /\ Issued("commit") # {} => Gate
    /\ ~Gate => \A i \in 1..Len(invocations) : invocations[i].args.cmd \in ReadOnly

(* C7 as amended: a commit is issued only under the gate; without the gate *)
(* and without rebase only status, log and diff are issued; with rebase    *)
(* only the history query and at most one rebase are issued; without       *)
(* rebase no rebase is issued.                                             *)

C7_GateAmended ==
    /\ Issued("commit") # {} => Gate
    /\ (~Gate /\ ~opt.rebase) =>
          \A i \in 1..Len(invocations) : invocations[i].args.cmd \in ReadOnly
    /\ opt.rebase =>
          /\ \A i \in 1..Len(invocations) :
                invocations[i].args.cmd \in {"log", "rebase"}
          /\ Cardinality(Issued("rebase")) <= 1
    /\ ~opt.rebase => Issued("rebase") = {}
    /\ made # <<>> => Gate

C7_Witness ==
    /\ Done
    /\ opt.no_commit /\ opt.all /\ files # <<>> /\ ~opt.rebase
    /\ exitcode = 0
    /\ Issued("log") # {}
    /\ Issued("commit") = {}

(* C8: when a commit invocation exits non-zero, the commits made before it *)
(* stay, nothing is issued after it (no later group, no retry), and the    *)
(* run ends with an ERROR line for that command and exit code 1.           *)

C8_PartialFailure ==
    /\ made = [k \in 1..Len(SucceededIn(invocations)) |->
                  SucceededIn(invocations)[k].args]
    /\ \A n \in Issued("commit") :
          invocations[n].rc # 0 =>
             /\ n = Len(invocations)
             /\ Done
             /\ exitcode = 1
             /\ exc = ""
             /\ ErrorLines = {Len(out)}
             /\ out[Len(out)].error.kind = "Error"
             /\ out[Len(out)].error.args = invocations[n].args
             /\ out[Len(out)].error.rc = invocations[n].rc
             /\ Len(made) = Cardinality(Issued("commit")) - 1
             /\ \A k \in 1..Len(made) :
                   made[k].rev # invocations[n].args.rev

C8_Witness ==
    /\ Done
    /\ \E n \in Issued("commit") : invocations[n].rc # 0
    /\ Len(made) = 1
    /\ Cardinality(Owners) = 3

(* C9: when resolution succeeds the groups partition the input paths:      *)
(* every input path is in the group of the commit its history query        *)
(* returned and in no other, no group is empty, the groups cover exactly   *)
(* the input paths.                                                        *)

C9_Partition ==
    (pc \in {"report", "commit"} \/ (Done /\ ResolvedAndReported)) =>
        /\ \A f \in InputPaths :
              \A k \in DOMAIN changes : f \in changes[k] <=> k = OwnerId(f)
        /\ \A f \in InputPaths : OwnerId(f) \in DOMAIN changes
        /\ \A k \in DOMAIN changes : changes[k] # {}
        /\ UNION {changes[k] : k \in DOMAIN changes} = InputPaths
        /\ DOMAIN desc = DOMAIN changes

C9_Witness ==
    /\ pc = "report"
    /\ Cardinality(InputPaths) = 3
    /\ Cardinality(DOMAIN changes) = 2

(* C10: when the pending set is not empty and no history entry's subject   *)
(* is a member of it, no rebase is issued and the run ends with an ERROR   *)
(* line that holds the pending targets and exit code 1.                    *)

C10_NoTargetIsAnError ==
    (Done /\ HistoryRead /\ PendingTargets # {} /\ TargetEntries = {}) =>
        /\ Issued("rebase") = {}
        /\ Len(invocations) = 1
        /\ exitcode = 1
        /\ exc = ""
        /\ Len(out) = 1
        /\ out[1].tag = "ERROR"
        /\ out[1].error.kind = "Error"
        /\ out[1].error.what = "could not find target"
        /\ out[1].error.targets = PendingTargets

C10_Witness ==
    /\ Done
    /\ HistoryRead
    /\ PendingTargets = {<<"Z">>, SubjB}
    /\ TargetEntries = {}
    /\ exitcode = 1

====
